---- MODULE Spec2Model ----
(***************************************************************************)
(* Build orchestrator of webly (src/_system/_buildr/generator.js) with the *)
(* parts of the renderer (renderer.js) that decide which pages load and    *)
(* render.  One project, one build at a time; the file system under the    *)
(* project's output root and its _dist directory are part of the state.    *)
(* The change watchers (watcher.js and its single-site predecessor) are    *)
(* modelled with the builds they spawn reduced to commands that exit.      *)
(***************************************************************************)
EXTENDS Integers, Sequences, FiniteSets, TLC

(* ------------------------------ bounds --------------------------------- *)
\* builds started in one behaviour of the history specification
MaxBuilds == 3
\* most seconds that pass between the starts of two builds (0: same second)
MaxGap == 1
\* largest retention cap (maxBuildsToKeep) tried
MaxKeep == 2
\* builds started in one behaviour of the project specification
ProjectBuilds == 2
\* change notifications delivered to the watcher in one behaviour
MaxNotes == 3
\* the debounce interval (watch.debounceMs) in clock ticks of the watcher
Debounce == 2

(* ------------------------------ inputs --------------------------------- *)
Pages == {"home", "about", "contact"}
Content == {"a", "b"}
None == "none"
NoId == "noid"
NoDir == -1
Assets == "assets"

Node(id, children) == [id |-> id, children |-> children]
Leaf(id) == Node(id, <<>>)

\* page definitions: contentSource and/or contentSources, as *_page.json has them
\* loads: the definition file exists and parses; hasSources: the field
\* contentSources is present
PageDef(c, has, cs) ==
  [loads |-> TRUE, contentSource |-> c, hasSources |-> has, contentSources |-> cs]
Single(c) == PageDef(c, FALSE, <<>>)
Multi(cs) == PageDef(None, TRUE, cs)
Both(c, cs) == PageDef(c, TRUE, cs)
Neither == PageDef(None, FALSE, <<>>)
Missing == [loads |-> FALSE, contentSource |-> None, hasSources |-> FALSE,
            contentSources |-> <<>>]

\* group node without id; page reachable only from the footer
MenuGroup ==
  [primaryNavigation |-> <<Leaf("home"), Node(NoId, <<Leaf("about")>>)>>,
   footerNavigation  |-> <<Leaf("contact")>>]
\* nested child; page listed in both navigations
MenuNested ==
  [primaryNavigation |-> <<Node("home", <<Leaf("about")>>)>>,
   footerNavigation  |-> <<Leaf("home"), Leaf("contact")>>]
\* flat primary navigation, empty footer
MenuFlat ==
  [primaryNavigation |-> <<Leaf("home"), Leaf("about"), Leaf("contact")>>,
   footerNavigation  |-> <<>>]
Menus == {MenuGroup, MenuNested, MenuFlat}
\* two pages in the primary navigation
MenuSmall ==
  [primaryNavigation |-> <<Leaf("home"), Leaf("about")>>, footerNavigation |-> <<>>]

PageDefChoices ==
  {Missing, Single("a"), Single("b"), Multi(<<"a", "b">>), Both("b", <<"a">>), Neither}

\* the changed input of an incremental build: X.content.json or any other file
ContentFile(c) == [kind |-> "content", id |-> c]
OtherFile == [kind |-> "other", id |-> None]
NoFile == [kind |-> "none", id |-> None]
Files == {ContentFile(c) : c \in Content} \cup {OtherFile, NoFile}

Options == [fullRebuild : BOOLEAN, file : Files, promote : BOOLEAN]

\* the paths a watcher is notified about: content files, a global file
\* (_menu.json, a layout, the site configuration) and a stylesheet
GlobalFile == [kind |-> "global", id |-> None]
StyleFile == [kind |-> "style", id |-> None]
WatchedFiles == {ContentFile(c) : c \in Content} \cup {GlobalFile, StyleFile}
\* the commands a watcher spawns; NoCmd: none is outstanding
NoCmd == [kind |-> "none", file |-> NoFile]
FullCmd == [kind |-> "full", file |-> NoFile]
PageCmd(f) == [kind |-> "page", file |-> f]

\* template versions of the template library; systemConfig.templates.latestVersion
Versions == {"v1", "v2"}
LatestVersion == "v2"
NoVersion == "v0"
\* template.upgradePolicy of project_config.json; "absent": the field is missing
Policies == {"manual", "auto", "locked", "absent"}
\* project_config.json as loadProjectConfig finds it: loads is "ok", "absent"
\* (no file) or "unparseable" (JSON.parse throws); writable: writeFileSync on
\* it succeeds (FALSE: the file is read-only)
Descriptor(l, v, pol, w) ==
  [loads |-> l, status |-> "active", projectStatus |-> "active", version |-> v,
   upgradePolicy |-> pol, lastModified |-> 0, writable |-> w]
GoodProject == Descriptor("ok", "v1", "manual", TRUE)

\* the project ids of the installation, in the order localeCompare puts them
ProjectOrder == <<"acme", "blog", "shop">>
ProjectIds == {"acme", "blog", "shop"}
NoProject == "noproject"
\* a project directory discoverProjects found: its project_config.json parses
Found(id, st) == [projectId |-> id, status |-> st]
\* project_config.json of a project directory: the field status, "absent"
\* when the file has none, and the field projectStatus
OnDisk(id, st, pst) == [projectId |-> id, status |-> st, projectStatus |-> pst]
Statuses == {"active", "archived"}
\* the options parseArgs of the multi-project runner produces; projects is
\* the allow-list of --projects=, empty when the option is not given
RunOptions == [all : BOOLEAN, projects : {{}, {"acme"}, {"blog", "shop"}},
               promote : BOOLEAN, stopOnError : BOOLEAN]
\* the runner process has not exited
NoExit == -1

\* asset file names, as path segments below an assets directory
AssetNames == {<<"logo.png">>, <<"icon.png">>, <<"shared", "logo.png">>}
NoName == <<>>
\* what resolveAssetPath returns: the pool and the name below its assets
\* directory, or null
AssetPath(pool, name) == [pool |-> pool, name |-> name]
NotFound == AssetPath("none", NoName)
\* projectConfig.build as far as assets go; projectConfig.build may be absent
BuildSettings == {[present |-> TRUE, useSharedAssets |-> TRUE],
                  [present |-> TRUE, useSharedAssets |-> FALSE],
                  [present |-> FALSE, useSharedAssets |-> FALSE]}
\* the values Math.random().toString(36).substring(7) can take
FieldDraws == {"field-k3x9", "field-q7m2"}
NoHtml == [page |-> None, blocks |-> <<>>, fields |-> None]

VARIABLES
  menu,            \* renderer.menu (_menu.json)
  pageDefs,        \* page id -> page definition, or Missing when it cannot load
  contentUnits,    \* content-unit ids whose file exists
  config,          \* settings of system_config.json / project_config.json
  commands,        \* the build commands (options) the drivers issue
  budget,          \* builds this behaviour may still start
  now,             \* wall clock in whole seconds; buildNo orders events within one
  dirs,            \* build directories under outputRoot/projectId: name -> record
  latest,          \* target of the "latest" symlink, NoDir when absent
  dist,            \* the _dist directory: [exists, files]
  backups,         \* _dist.backup-* directories: set of [name, files]
  lastBuilt,       \* lastBuilt persisted in project_config.json
  project,         \* the other fields of project_config.json, and whether it loads
  templates,       \* versions that have a directory under templatesRoot
  templateVersion, \* this.templateVersion of the running (or last) build
  pc,              \* position of the running build in build()
  options,         \* options of the running build
  output,          \* paths.output of the running build (directory name)
  dependencyGraph, \* content id -> list of page ids
  queue,           \* page ids dispatched to buildPage, in order
  pending,         \* indices of queue whose buildPage has not finished
  rendered,        \* page ids renderPage was invoked for
  written,         \* page ids whose output this build wrote
  failed,          \* page ids whose buildPage threw
  isolated,        \* TRUE when page errors are caught per page (buildAllPages)
  buildNo,         \* number of the running (or last) build
  outcome,         \* result of the last finished build
  events,          \* what the running (or last) build did to marker and _dist
  history,         \* record of the run: successful builds, directories ever created
  legacy,          \* TRUE: the single-site watcher runs, FALSE: the multi-project one
  buildQueue,      \* watcher.buildQueue: changed paths not yet taken by processQueue
  debounceTimer,   \* ticks until the timer of handleChange fires, NoTimer when off
  isBuilding,      \* watcher.isBuilding
  batch,           \* files of the running processQueue still to be looked at
  running,         \* the command whose exec callback is outstanding
  notes,           \* notifications received, taken by processQueue, built for
  round,           \* the last processQueue that took files: the files, its commands
  discovered,      \* the project directories under projectsRoot, in scan order
  runOptions,      \* MultiProjectBuilder.options
  run,             \* the multi-project runner: position, results, report, exit code
  direct,          \* the project a build started by hand is running for
  pools,           \* project and shared asset pools, and projectConfig.build
  lookup,          \* the last call of resolveAssetPath: file name and result
  outputAssets,    \* the assets directory of the output after copyAssets
  forms,           \* content units that hold a form field without a name
  render,          \* two full rebuilds in a row: position and page outputs
  projectConfig,   \* this.projectConfig of the builder: the descriptor as loaded
  descriptors      \* project_config.json of the project directories, in scan order

vars == <<menu, pageDefs, contentUnits, config, commands, budget, now, dirs,
          latest, dist, backups, lastBuilt, project, templates, templateVersion,
          pc, options, output, dependencyGraph, queue, pending, rendered, written,
          failed, isolated, buildNo, outcome, events, history, legacy, buildQueue,
          debounceTimer, isBuilding, batch, running, notes, round, discovered,
          runOptions, run, direct, pools, lookup, outputAssets, forms, render,
          projectConfig, descriptors>>


(* ----------------------------- helpers --------------------------------- *)
Range(s) == {s[i] : i \in 1..Len(s)}

RECURSIVE Flatten(_)
\* concatenation of a sequence of sequences
Flatten(ss) == IF ss = <<>> THEN <<>> ELSE Head(ss) \o Flatten(Tail(ss))

RECURSIVE CollectPages(_)
\* collectPages of buildAllPages: the ids of a node and its descendants, preorder
CollectPages(item) ==
  (IF item.id # NoId THEN <<item.id>> ELSE <<>>)
    \o Flatten([i \in 1..Len(item.children) |-> CollectPages(item.children[i])])

CollectAll(items) == Flatten([i \in 1..Len(items) |-> CollectPages(items[i])])

\* buildAllPages that forgets the footer navigation
AllPagesPrimaryOnly(m) == CollectAll(m.primaryNavigation)

\* the page list of buildAllPages: primaryNavigation, then footerNavigation
AllPages(m) == CollectAll(m.primaryNavigation) \o CollectAll(m.footerNavigation)

\* loadPageConfig succeeds
Loadable(defs, p) == defs[p].loads

\* the sources renderPage loads: contentSources || [contentSource]
Sources(def) ==
  IF def.hasSources THEN def.contentSources ELSE <<def.contentSource>>

\* renderPage returns markup: the definition loads and every source is found
RenderOK(defs, units, p) ==
  /\ Loadable(defs, p)
  /\ \A c \in Range(Sources(defs[p])) : c \in units

\* the key processMenuItem records: contentSource || contentSources[0];
\* None when the expression throws (neither field is present)
GraphKey(def) ==
  IF def.contentSource # None THEN def.contentSource
  ELSE IF def.hasSources /\ Len(def.contentSources) > 0
       THEN def.contentSources[1]
       ELSE None

\* the try block of processMenuItem: push the page id under its key; the
\* graph is unchanged when loadPageConfig or the key expression throws
RecordEdge(g, defs, p) ==
  LET k == IF Loadable(defs, p) THEN GraphKey(defs[p]) ELSE None
  IN IF k = None THEN g ELSE [g EXCEPT ![k] = Append(@, p)]

RECURSIVE ProcessMenuItem(_, _, _)
RECURSIVE ProcessItems(_, _, _)
\* a processMenuItem whose visit of a node ends when its definition cannot
\* load: the children of such a node are passed over
ProcessLoadedOnly(g, defs, item) ==
  IF item.id # NoId /\ ~Loadable(defs, item.id) THEN g
  ELSE ProcessItems(IF item.id # NoId THEN RecordEdge(g, defs, item.id) ELSE g,
                    defs, item.children)

\* processMenuItem: the node itself when it has an id, then its children
ProcessMenuItem(g, defs, item) ==
  ProcessItems(IF item.id # NoId THEN RecordEdge(g, defs, item.id) ELSE g,
               defs, item.children)
\* items.forEach(processMenuItem)
ProcessItems(g, defs, items) ==
  IF items = <<>> THEN g
  ELSE ProcessItems(ProcessMenuItem(g, defs, Head(items)), defs, Tail(items))

\* this.dependencyGraph = {} of the constructor; an absent key reads as []
EmptyGraph == [c \in Content |-> <<>>]

\* buildDependencyGraph: walks menu.primaryNavigation.items only
BuildDependencyGraph(m, defs) == ProcessItems(EmptyGraph, defs, m.primaryNavigation)

\* build-<timestamp> of buildPaths: toISOString() cut to whole seconds; 0 is
\* the un-timestamped outputRoot/projectId
Flat == 0
BuildPaths(cfg, t) == IF cfg.outputToTimestampedFolder THEN t ELSE Flat

\* the directory "latest" resolves to, NoDir when absent or dangling.  The
\* link target is relative to outputRoot/projectId, so only build-* names
\* that exist resolve.
Resolve(l, ds) == IF l # NoDir /\ l # Flat /\ l \in DOMAIN ds THEN l ELSE NoDir

\* the entries of a directory in the order readdirSync lists them
FileOrder == <<"about", "assets", "contact", "home">>
Entries == Range(FileOrder)
Ordered(files) == SelectSeq(FileOrder, LAMBDA f : f \in files)
\* the first k entries copyDirectory copies out of files
Copied(files, k) == Range(SubSeq(Ordered(files), 1, k))

\* the build-* directories of outputBase, as cleanupOldBuilds filters them
BuildDirs(ds) == {n \in DOMAIN ds : n # Flat}

\* a cleanup that sorts oldest first: every build directory that has at
\* least maxKeep older ones
ToDeleteNewest(ds, maxKeep) ==
  {n \in BuildDirs(ds) :
     Cardinality({m \in BuildDirs(ds) : ds[m].mtime < ds[n].mtime}) >= maxKeep}

\* builds.sort(newest first).slice(maxKeep): every build directory that has
\* at least maxKeep newer ones
ToDelete(ds, maxKeep) ==
  {n \in BuildDirs(ds) :
     Cardinality({m \in BuildDirs(ds) : ds[m].mtime > ds[n].mtime}) >= maxKeep}

\* mkdir -p of the directory n and creation of entry f in it by build b; t is
\* the modification time the directory gets (milliseconds: later builds are
\* later).  writeHTML joins paths.output to the path buildPage already joined,
\* so a page's file lies deeper below n; the entry stands for it.
WriteEntry(ds, n, f, b, t) ==
  IF n \in DOMAIN ds
  THEN [ds EXCEPT ![n] = [@ EXCEPT !.files = @ \cup {f}, !.mtime = t,
                                   !.builds = @ \cup {b}]]
  ELSE [m \in DOMAIN ds \cup {n} |->
          IF m = n THEN [files |-> {f}, mtime |-> t, created |-> t, builds |-> {b}]
          ELSE ds[m]]

Remove(ds, gone) == [m \in DOMAIN ds \ gone |-> ds[m]]

NoEvents == [marker |-> "none", promotion |-> "none",
             prior |-> [exists |-> FALSE, files |-> {}],
             steps |-> {}, write |-> "none",
             managed |-> [on |-> FALSE, projectStatus |-> "none",
                          version |-> NoVersion, upgradePolicy |-> "none"]]

\* the directories ever created, with the one build b writes into
Created(h, ds, n, b) ==
  IF n \in DOMAIN ds \/ n = Flat THEN h
  ELSE [h EXCEPT !.created = @ \cup {[name |-> n, created |-> b]}]

\* a promotion that removes the old _dist instead of renaming it
RemoveOld(bs, d, b) == bs

\* fs.renameSync(distPath, backupPath): the backups after build b moved d aside
RenameAside(bs, d, b) ==
  IF d.exists THEN bs \cup {[name |-> b, files |-> d.files]} ELSE bs

\* a resolver that substitutes the latest version whatever the policy
ResolveAlwaysLatest(proj, systemLatest) == systemLatest

\* resolveTemplateVersion up to the existence test: the latest version under
\* the policy "auto", the declared one otherwise (manual is the default)
ResolveTemplateVersion(proj, systemLatest) ==
  IF proj.upgradePolicy = "auto" THEN systemLatest ELSE proj.version

\* a constructor that tests nothing
ConstructorUnchecked(proj, tpls) == TRUE

\* the constructor returns: loadProjectConfig finds and parses the descriptor
\* and the directory of the resolved template version exists
ConstructorOK(proj, tpls) ==
  /\ proj.loads = "ok"
  /\ ResolveTemplateVersion(proj, LatestVersion) \in tpls

\* a createLatestSymlink that lets its error escape to build()
MarkerErrorEscapes(ok) == IF ok THEN "cleanup" ELSE "failed"

\* the catch of createLatestSymlink: build() goes on to cleanupOldBuilds
\* whether or not the link was made
AfterMarker(ok) == "cleanup"

\* a build() that promotes every build
PromoteAlways(cfg, opts) == TRUE

\* the test of build() before promoteToStable
PromotionRequested(cfg, opts) == cfg.promoteToDist \/ opts.promote

(* ------------------------------ actions -------------------------------- *)
\* the part of the state a build leaves alone until it ends
RendererUnchanged == UNCHANGED <<pools, lookup, outputAssets, forms, render>>
RunnerUnchanged ==
  /\ UNCHANGED <<discovered, runOptions, run, direct, descriptors>>
  /\ RendererUnchanged
WatcherUnchanged ==
  /\ UNCHANGED <<legacy, buildQueue, debounceTimer, isBuilding, batch, running,
                 notes, round>>
  /\ RunnerUnchanged
InputsUnchanged ==
  /\ UNCHANGED <<menu, pageDefs, contentUnits, config, commands, templates>>
  /\ WatcherUnchanged
ProjectUnchanged == InputsUnchanged /\ UNCHANGED projectConfig

\* buildAffectedPages that takes the dependents of every content unit
AffectedOfAny(g, file) == g["a"] \o g["b"]

\* the page ids buildAffectedPages dispatches for a changed file:
\* dependencyGraph[basename(file, '.content.json')] || []
Affected(g, file) == g[file.id]

\* new WebGenBuilder(projectId, options) followed by build(options) up to the
\* dispatch of the page renders: paths, dependency graph, scope decision.
\* When the constructor throws, main reports the error and exits.
Start(opts, gap) ==
  /\ pc = "idle"
  /\ budget > 0
  /\ budget' = budget - 1
  /\ now' = now + gap
  /\ buildNo' = buildNo + 1
  /\ options' = opts
  /\ rendered' = {}
  /\ written' = {}
  /\ failed' = {}
  /\ events' = NoEvents
  /\ IF ConstructorOK(project, templates)
     THEN /\ templateVersion' = ResolveTemplateVersion(project, LatestVersion)
          /\ output' = BuildPaths(config, now')
          /\ dependencyGraph' = BuildDependencyGraph(menu, pageDefs)
          /\ LET incremental == ~opts.fullRebuild /\ opts.file.kind = "content"
             IN /\ queue' = IF incremental THEN Affected(dependencyGraph', opts.file)
                            ELSE AllPages(menu)
                /\ isolated' = ~incremental
          /\ outcome' = "running"
          /\ pc' = "render"
     ELSE /\ templateVersion' = NoVersion
          /\ output' = NoDir
          /\ dependencyGraph' = EmptyGraph
          /\ queue' = <<>>
          /\ isolated' = TRUE
          /\ outcome' = "failure"
          /\ pc' = "idle"
  /\ pending' = DOMAIN queue'
  /\ projectConfig' = IF project.loads = "ok" THEN project ELSE projectConfig
  /\ UNCHANGED <<dirs, latest, dist, backups, lastBuilt, project, history>>
  /\ InputsUnchanged

\* buildPage(queue[i]): renderPage, then writeHTML into paths.output; a throw
\* of renderPage leaves no file
BuildPage(i) ==
  /\ pc = "render"
  /\ i \in pending
  /\ pending' = pending \ {i}
  /\ rendered' = rendered \cup {queue[i]}
  /\ IF RenderOK(pageDefs, contentUnits, queue[i])
     THEN /\ dirs' = WriteEntry(dirs, output, queue[i], buildNo, buildNo)
          /\ history' = [Created(history, dirs, output, buildNo)
                           EXCEPT !.pages = @ \cup {queue[i]}]
          /\ written' = written \cup {queue[i]}
          /\ UNCHANGED failed
     ELSE /\ failed' = failed \cup {queue[i]}
          /\ UNCHANGED <<dirs, written, history>>
  /\ UNCHANGED <<budget, now, project, templateVersion, latest, dist, backups,
                 lastBuilt, pc, options, output, dependencyGraph, queue,
                 isolated, buildNo, outcome, events>>
  /\ ProjectUnchanged

\* await Promise.all(...): buildAllPages has caught every page error;
\* buildAffectedPages rejects when a page threw and build() rethrows
RenderingDone ==
  /\ pc = "render"
  /\ pending = {}
  /\ IF ~isolated /\ failed # {}
     THEN pc' = "idle" /\ outcome' = "failure"
     ELSE pc' = "assets" /\ UNCHANGED outcome
  /\ UNCHANGED <<budget, now, project, templateVersion, dirs, latest, dist,
                 backups, lastBuilt, options, output, dependencyGraph, queue,
                 pending, rendered, written, failed, isolated, buildNo, events,
                 history>>
  /\ ProjectUnchanged

\* copyAssets: the asset, style and script directories that exist are copied
\* under paths.output
CopyAssets ==
  /\ pc = "assets"
  /\ dirs' = IF config.hasAssets
             THEN WriteEntry(dirs, output, Assets, buildNo,
                             IF output \in DOMAIN dirs /\ Assets \in dirs[output].files
                             THEN dirs[output].mtime ELSE buildNo)
             ELSE dirs
  /\ history' = IF config.hasAssets THEN Created(history, dirs, output, buildNo)
                ELSE history
  /\ pc' = "symlink"
  /\ UNCHANGED <<budget, now, project, templateVersion, latest, dist, backups,
                 lastBuilt, options, output, dependencyGraph, queue, pending,
                 rendered, written, failed, isolated, buildNo, outcome, events>>
  /\ ProjectUnchanged

\* createLatestSymlink: unlink when existsSync (which follows the link) sees
\* it, then symlinkSync; platformOk = FALSE is the platform refusing the link
CreateLatestSymlink(platformOk) ==
  /\ pc = "symlink"
  /\ IF ~config.createSymlinkToLatest
     THEN UNCHANGED <<latest, events>>
     ELSE LET seen == Resolve(latest, dirs) # NoDir
              afterUnlink == IF seen THEN NoDir ELSE latest
              ok == platformOk /\ afterUnlink = NoDir
          IN /\ latest' = IF ok THEN output ELSE afterUnlink
             /\ events' = [events EXCEPT !.marker = IF ok THEN "ok" ELSE "failed"]
  /\ pc' = AfterMarker(events'.marker # "failed")
  /\ UNCHANGED <<budget, now, project, templateVersion, dirs, dist, backups,
                 lastBuilt, options, output, dependencyGraph, queue, pending,
                 rendered, written, failed, isolated, buildNo, outcome,
                 history>>
  /\ ProjectUnchanged

\* cleanupOldBuilds, then the test of build() that decides on promotion
CleanupOldBuilds ==
  /\ pc = "cleanup"
  /\ dirs' = Remove(dirs, ToDelete(dirs, config.maxBuildsToKeep))
  /\ pc' = IF PromotionRequested(config, options) THEN "promote" ELSE "timestamp"
  /\ events' = [events EXCEPT !.steps = @ \cup {"cleanup"}]
  /\ UNCHANGED <<budget, now, project, templateVersion, latest, dist, backups,
                 lastBuilt, options, output, dependencyGraph, queue, pending,
                 rendered, written, failed, isolated, buildNo, outcome,
                 history>>
  /\ ProjectUnchanged

\* promoteToStable: rename _dist to _dist.backup-<Date.now()> (milliseconds,
\* so one name per build), then
\* copyDirectory(output, _dist), which stops after k entries when k is less
\* than their number (the copy throws) and does nothing without a source
PromoteToStable(k) ==
  /\ pc = "promote"
  /\ backups' = RenameAside(backups, dist, buildNo)
  /\ IF output \in DOMAIN dirs
     THEN /\ k \in 0..Cardinality(dirs[output].files)
          /\ dist' = [exists |-> TRUE, files |-> Copied(dirs[output].files, k)]
          /\ events' = [events EXCEPT !.prior = dist, !.steps = @ \cup {"promote"},
                          !.promotion =
                            IF k = Cardinality(dirs[output].files) THEN "ok"
                            ELSE "failed"]
     ELSE /\ k = 0
          /\ dist' = [exists |-> FALSE, files |-> {}]
          /\ events' = [events EXCEPT !.prior = dist, !.steps = @ \cup {"promote"},
                                       !.promotion = "ok"]
  /\ pc' = "timestamp"
  /\ UNCHANGED <<budget, now, project, templateVersion, dirs, latest, lastBuilt,
                 options, output, dependencyGraph, queue, pending, rendered,
                 written, failed, isolated, buildNo, outcome, history>>
  /\ ProjectUnchanged

\* updateBuildTimestamp and the return of build(): lastBuilt and lastModified
\* are set and the whole descriptor is written back; when writeFileSync
\* throws, the error is caught and logged
UpdateBuildTimestamp ==
  /\ pc = "timestamp"
  /\ lastBuilt' = IF project.writable THEN buildNo ELSE lastBuilt
  /\ projectConfig' = [projectConfig EXCEPT !.lastModified = buildNo]
  /\ project' = IF project.writable
                THEN [projectConfig' EXCEPT !.loads = "ok",
                                            !.writable = project.writable]
                ELSE project
  /\ events' = [events EXCEPT !.steps = @ \cup {"timestamp"},
                              !.write = IF project.writable THEN "ok" ELSE "failed"]
  /\ outcome' = "success"
  /\ history' = [history EXCEPT !.succeeded = @ + 1]
  /\ pc' = "idle"
  /\ UNCHANGED <<budget, now, templateVersion, dirs, latest, dist, backups,
                 options, output, dependencyGraph, queue, pending, rendered,
                 written, failed, isolated, buildNo>>
  /\ InputsUnchanged

\* between two builds the descriptor is removed or damaged
DescriptorLost(how) ==
  /\ pc = "idle"
  /\ budget > 0
  /\ project.loads = "ok"
  /\ project' = [project EXCEPT !.loads = how]
  /\ UNCHANGED <<budget, now, templateVersion, dirs, latest, dist, backups,
                 lastBuilt, pc, options, output, dependencyGraph, queue,
                 pending, rendered, written, failed, isolated, buildNo, outcome,
                 events, history, menu, pageDefs, contentUnits, config,
                 commands, templates, projectConfig>>
  /\ WatcherUnchanged

\* between two builds the directory of a template version is removed
TemplateRemoved(v) ==
  /\ pc = "idle"
  /\ budget > 0
  /\ v \in templates
  /\ templates' = templates \ {v}
  /\ UNCHANGED <<budget, now, templateVersion, dirs, latest, dist, backups,
                 lastBuilt, pc, options, output, dependencyGraph, queue,
                 pending, rendered, written, failed, isolated, buildNo, outcome,
                 events, history, menu, pageDefs, contentUnits, config,
                 commands, project, projectConfig>>
  /\ WatcherUnchanged

\* build() called again on the builder that ran the last build: the
\* constructor does not run, so the descriptor, the template version and the
\* paths are those of the instance, and buildDependencyGraph pushes onto the
\* graph the instance already holds
StartAgain(opts, gap) ==
  /\ pc = "idle"
  /\ budget > 0
  /\ templateVersion # NoVersion
  /\ budget' = budget - 1
  /\ now' = now + gap
  /\ buildNo' = buildNo + 1
  /\ options' = opts
  /\ rendered' = {}
  /\ written' = {}
  /\ failed' = {}
  /\ events' = NoEvents
  /\ dependencyGraph' = ProcessItems(dependencyGraph, pageDefs, menu.primaryNavigation)
  /\ LET incremental == ~opts.fullRebuild /\ opts.file.kind = "content"
     IN /\ queue' = IF incremental THEN Affected(dependencyGraph', opts.file)
                    ELSE AllPages(menu)
        /\ isolated' = ~incremental
  /\ outcome' = "running"
  /\ pc' = "render"
  /\ pending' = DOMAIN queue'
  /\ UNCHANGED <<templateVersion, output, dirs, latest, dist, backups, lastBuilt,
                 project, history>>
  /\ ProjectUnchanged

\* between two builds the definition of page p is edited
EditPageDef(p, def) ==
  /\ pc = "idle"
  /\ budget > 0
  /\ pageDefs[p] # def
  /\ pageDefs' = [pageDefs EXCEPT ![p] = def]
  /\ UNCHANGED <<budget, now, templateVersion, dirs, latest, dist, backups,
                 lastBuilt, pc, options, output, dependencyGraph, queue,
                 pending, rendered, written, failed, isolated, buildNo, outcome,
                 events, history, menu, contentUnits, config, commands,
                 templates, project, projectConfig>>
  /\ WatcherUnchanged

\* what a project-management command has written into the descriptor while
\* the running build was in progress
Managed(proj) ==
  [on |-> TRUE, projectStatus |-> proj.projectStatus, version |-> proj.version,
   upgradePolicy |-> proj.upgradePolicy]

\* archiveProject of the project CLI: the descriptor is loaded, projectStatus
\* set to archived, the upgrade policy locked, and the file written back
ArchiveDescriptor ==
  /\ project.loads = "ok"
  /\ project.writable
  /\ project' = [project EXCEPT !.projectStatus = "archived",
                                !.upgradePolicy = "locked",
                                !.lastModified = buildNo]
  /\ events' = IF pc # "idle" THEN [events EXCEPT !.managed = Managed(project')]
               ELSE events
  /\ UNCHANGED <<budget, now, templateVersion, dirs, latest, dist, backups,
                 lastBuilt, pc, options, output, dependencyGraph, queue,
                 pending, rendered, written, failed, isolated, buildNo, outcome,
                 history, menu, pageDefs, contentUnits, config, commands,
                 templates, projectConfig>>
  /\ WatcherUnchanged

\* upgradeTemplate of the project CLI: refused for a version without a
\* template directory and for a locked project; the declared version and the
\* policy are set and the file written back
UpgradeTemplate(v, pol) ==
  /\ project.loads = "ok"
  /\ project.writable
  /\ v \in templates
  /\ project.upgradePolicy # "locked"
  /\ project' = [project EXCEPT !.version = v, !.upgradePolicy = pol,
                                !.lastModified = buildNo]
  /\ events' = IF pc # "idle" THEN [events EXCEPT !.managed = Managed(project')]
               ELSE events
  /\ UNCHANGED <<budget, now, templateVersion, dirs, latest, dist, backups,
                 lastBuilt, pc, options, output, dependencyGraph, queue,
                 pending, rendered, written, failed, isolated, buildNo, outcome,
                 history, menu, pageDefs, contentUnits, config, commands,
                 templates, projectConfig>>
  /\ WatcherUnchanged

(* ------------------------------ watcher -------------------------------- *)
ProjectFilesUnchanged ==
  UNCHANGED <<menu, pageDefs, contentUnits, config, commands, budget, now, dirs,
              latest, dist, backups, lastBuilt, project, templates,
              templateVersion, pc, options, output, dependencyGraph, queue,
              pending, rendered, written, failed, isolated, buildNo, outcome,
              events, history, pools, lookup, outputAssets, forms, render,
              projectConfig>>
BuilderUnchanged ==
  ProjectFilesUnchanged
    /\ UNCHANGED <<discovered, runOptions, run, direct, descriptors>>

RECURSIVE SkipToBuild(_)
\* the loop of the single-site processQueue up to its next runCommand: a
\* stylesheet is copied at once, a file of no known kind is passed over
SkipToBuild(files) ==
  IF files = <<>> THEN <<>>
  ELSE IF Head(files).kind = "content" THEN files
  ELSE SkipToBuild(Tail(files))

\* a processQueue that never takes a file for a global one
NeverFullRebuild(files) == FALSE

\* files.some(f => this.isGlobalFile(f))
NeedsFullRebuild(files) == \E i \in 1..Len(files) : files[i].kind = "global"

\* the files processQueue still has to build for, the first one being built
\* next: the multi-project watcher runs one build for the whole set, the
\* single-site one a full rebuild for a global file and one build per file
\* otherwise
Plan(isLegacy, files) ==
  IF ~isLegacy \/ NeedsFullRebuild(files) THEN <<NoFile>>
  ELSE SkipToBuild(files)

\* the command for the head of a plan
Command(plan) ==
  IF plan = <<>> THEN NoCmd
  ELSE IF Head(plan) = NoFile THEN FullCmd
  ELSE PageCmd(Head(plan))

\* no timer is armed
NoTimer == -1

\* a handleChange that leaves a timer that is already armed as it is
KeepTimer(timer) == IF timer = NoTimer THEN Debounce ELSE timer

\* clearTimeout(this.debounceTimer) and setTimeout(..., debounceMs): the
\* timer after a notification
Rearm(timer) == Debounce

\* the commands a processQueue has spawned, with one more
Spawned(cmds, cmd) == IF cmd = NoCmd THEN cmds ELSE Append(cmds, cmd)

\* the commands in flight after one more exec of a command, if there is one
Outstanding(n, cmd) == IF cmd = NoCmd THEN n ELSE n + 1

\* a processQueue that never finds a build in progress
NeverBusy(flag) == FALSE

\* if (this.isBuilding) return
Busy(flag) == flag

\* a processQueue without its finally: the flag is cleared on success only
NoFinally(ok, plan) == ~ok \/ plan # <<>>

\* this.isBuilding after the exec callback: processQueue awaits the next
\* command of its loop, or has left through finally
StillBuilding(ok, plan) == plan # <<>>

\* watcher.on('change'): handleChange queues the path and restarts the timer
HandleChange(f) ==
  /\ notes.received < MaxNotes
  /\ buildQueue' = Append(buildQueue, f)
  /\ debounceTimer' = Rearm(debounceTimer)
  /\ notes' = [notes EXCEPT !.received = @ + 1, !.sinceLast = 0,
                            !.bursts = IF debounceTimer = NoTimer THEN @ + 1 ELSE @]
  /\ UNCHANGED <<legacy, isBuilding, batch, running, round>>
  /\ BuilderUnchanged

\* one tick of the clock passes: an armed timer comes one tick closer to
\* firing
Tick ==
  /\ debounceTimer > 0 \/ notes.sinceLast < Debounce
  /\ debounceTimer' = IF debounceTimer > 0 THEN debounceTimer - 1 ELSE debounceTimer
  /\ notes' = [notes EXCEPT !.sinceLast = IF @ < Debounce THEN @ + 1 ELSE @]
  /\ UNCHANGED <<legacy, buildQueue, isBuilding, batch, running, round>>
  /\ BuilderUnchanged

\* the timer has elapsed and its callback runs: processQueue up to its first
\* await of runCommand, or to its end when it starts no command
ProcessQueue ==
  /\ debounceTimer = 0
  /\ debounceTimer' = NoTimer
  /\ IF Busy(isBuilding) \/ buildQueue = <<>>
     THEN /\ notes' = [notes EXCEPT !.runs = @ + 1]
          /\ UNCHANGED <<buildQueue, isBuilding, batch, running, round>>
     ELSE LET plan == Plan(legacy, buildQueue)
          IN /\ buildQueue' = <<>>
             /\ running' = Command(plan)
             /\ batch' = IF plan = <<>> THEN <<>> ELSE Tail(plan)
             /\ isBuilding' = (plan # <<>>)
             /\ round' = [files |-> buildQueue,
                          cmds |-> Spawned(<<>>, Command(plan)), failed |-> FALSE]
             /\ notes' = [notes EXCEPT !.runs = @ + 1,
                                       !.outstanding = Outstanding(@, Command(plan)),
                                       !.taken = notes.received,
                                       !.built = IF plan # <<>> THEN notes.received
                                                 ELSE @]
  /\ UNCHANGED legacy
  /\ BuilderUnchanged

\* the exec callback of runCommand: on success processQueue goes on with the
\* rest of its files, on an error its catch drops them; finally clears
\* isBuilding
CommandExit(ok) ==
  /\ running # NoCmd
  /\ LET plan == IF ok THEN SkipToBuild(batch) ELSE <<>>
     IN /\ running' = Command(plan)
        /\ batch' = IF plan = <<>> THEN <<>> ELSE Tail(plan)
        /\ isBuilding' = StillBuilding(ok, plan)
        /\ round' = [round EXCEPT !.cmds = Spawned(@, Command(plan)),
                                  !.failed = ~ok]
        /\ notes' = [notes EXCEPT !.outstanding = Outstanding(@ - 1, Command(plan)),
                                  !.failedOnce = @ \/ ~ok]
  /\ UNCHANGED <<legacy, buildQueue, debounceTimer>>
  /\ BuilderUnchanged


(* ------------------------- multi-project runner ------------------------ *)
\* a.projectId.localeCompare(b.projectId) < 0
Precedes(a, b) ==
  \E i, j \in 1..Len(ProjectOrder) :
    i < j /\ ProjectOrder[i] = a.projectId /\ ProjectOrder[j] = b.projectId

RECURSIVE Insert(_, _)
Insert(p, sorted) ==
  IF sorted = <<>> THEN <<p>>
  ELSE IF Precedes(p, Head(sorted)) THEN <<p>> \o sorted
  ELSE <<Head(sorted)>> \o Insert(p, Tail(sorted))

\* a filterProjects that leaves the projects in the order of the scan
KeepOrder(projects) == projects

RECURSIVE SortProjects(_)
\* filtered.sort((a, b) => a.projectId.localeCompare(b.projectId))
SortProjects(projects) ==
  IF projects = <<>> THEN <<>>
  ELSE Insert(Head(projects), SortProjects(Tail(projects)))

\* filterProjects: by status unless --all, then by the allow-list, then sorted
FilterProjects(projects, opts) ==
  LET byStatus == IF ~opts.all
                  THEN SelectSeq(projects, LAMBDA p : p.status = "active")
                  ELSE projects
      byId == IF opts.projects # {}
              THEN SelectSeq(byStatus, LAMBDA p : p.projectId \in opts.projects)
              ELSE byStatus
  IN SortProjects(byId)

\* the command buildProject hands to execSync
BuildCmd(p, opts) == [projectId |-> p.projectId, promote |-> opts.promote]

\* the entry buildProject pushes on this.results
Result(id, ok) == [projectId |-> id, status |-> IF ok THEN "success" ELSE "failed"]

\* a runner that goes on after every failure
AbortsNever(opts, ok) == FALSE

\* the catch of buildProject rethrows when --stop-on-error is set
Aborts(opts, ok) == ~ok /\ opts.stopOnError

\* a runner that always exits with 0
ExitZero(results) == 0

\* process.exit(failed > 0 ? 1 : 0)
ExitCode(results) ==
  IF \E i \in 1..Len(results) : results[i].status = "failed" THEN 1 ELSE 0

\* a loop that hands every project to a child process at once
LaunchAll(toBuild, opts) == [i \in 1..Len(toBuild) |-> BuildCmd(toBuild[i], opts)]

\* one turn of for (const project of toBuild) await this.buildProject(...):
\* execSync of the build command of the first project still to build
Launch(toBuild, opts) == <<BuildCmd(Head(toBuild), opts)>>

IdleRun == [pc |-> "idle", todo |-> <<>>, current |-> NoProject, started |-> <<>>,
            results |-> <<>>, reported |-> FALSE, report |-> <<>>,
            exit |-> NoExit]

\* buildAll up to its first execSync: discovery, filtering, and the exit
\* with 0 when there is nothing to build
BuildAll ==
  /\ run.pc = "idle"
  /\ run.exit = NoExit
  /\ LET toBuild == FilterProjects(discovered, runOptions)
     IN IF discovered = <<>> \/ toBuild = <<>>
        THEN run' = [run EXCEPT !.pc = "exited", !.exit = 0]
        ELSE run' = [run EXCEPT !.pc = "building",
                                !.todo = Tail(toBuild),
                                !.current = Head(toBuild).projectId,
                                !.started = Launch(toBuild, runOptions)]
  /\ UNCHANGED <<discovered, runOptions, direct, descriptors>>
  /\ ProjectFilesUnchanged
  /\ UNCHANGED <<legacy, buildQueue, debounceTimer, isBuilding, batch, running,
                 notes, round>>

\* execSync returns or throws: buildProject records the result; the loop of
\* buildAll goes on to the next execSync, or the rethrown error reaches the
\* catch of main, or the loop ends with generateReport and process.exit
ProjectExit(ok) ==
  /\ run.pc = "building"
  /\ LET results == Append(run.results, Result(run.current, ok))
     IN IF Aborts(runOptions, ok)
        THEN run' = [run EXCEPT !.pc = "exited", !.current = NoProject,
                                !.results = results, !.exit = 1]
        ELSE IF run.todo = <<>>
        THEN run' = [run EXCEPT !.pc = "exited", !.current = NoProject,
                                !.results = results, !.reported = TRUE,
                                !.report = results, !.exit = ExitCode(results)]
        ELSE run' = [run EXCEPT !.todo = Tail(run.todo),
                                !.current = Head(run.todo).projectId,
                                !.results = results,
                                !.started = @ \o Launch(run.todo, runOptions)]
  /\ UNCHANGED <<discovered, runOptions, direct, descriptors>>
  /\ ProjectFilesUnchanged
  /\ UNCHANGED <<legacy, buildQueue, debounceTimer, isBuilding, batch, running,
                 notes, round>>

\* npm run build -- --project=p from a shell: main of the builder starts a
\* build of p, whatever else is running
DirectStart(p) ==
  /\ direct = NoProject
  /\ direct' = p
  /\ UNCHANGED <<discovered, runOptions, run, descriptors>>
  /\ ProjectFilesUnchanged
  /\ UNCHANGED <<legacy, buildQueue, debounceTimer, isBuilding, batch, running,
                 notes, round>>

\* the build started by hand ends
DirectExit ==
  /\ direct # NoProject
  /\ direct' = NoProject
  /\ UNCHANGED <<discovered, runOptions, run, descriptors>>
  /\ ProjectFilesUnchanged
  /\ UNCHANGED <<legacy, buildQueue, debounceTimer, isBuilding, batch, running,
                 notes, round>>

\* discoverProjects over the project directories: status is config.status
\* || 'active'
DiscoverProjects(disk) ==
  [i \in 1..Len(disk) |->
     Found(disk[i].projectId,
           IF disk[i].status = "absent" THEN "active" ELSE disk[i].status)]

\* archiveProject of the project CLI on project id, before the run starts:
\* projectStatus of its project_config.json becomes archived
ArchiveProject(id) ==
  /\ run.pc = "idle"
  /\ run.exit = NoExit
  /\ \E i \in 1..Len(descriptors) : descriptors[i].projectId = id
  /\ descriptors' = [i \in 1..Len(descriptors) |->
                       IF descriptors[i].projectId = id
                       THEN [descriptors[i] EXCEPT !.projectStatus = "archived"]
                       ELSE descriptors[i]]
  /\ discovered' = DiscoverProjects(descriptors')
  /\ UNCHANGED <<runOptions, run, direct>>
  /\ ProjectFilesUnchanged
  /\ UNCHANGED <<legacy, buildQueue, debounceTimer, isBuilding, batch, running,
                 notes, round>>

NextArchive ==
  \/ \E id \in ProjectIds : ArchiveProject(id)
  \/ BuildAll
  \/ \E ok \in BOOLEAN : ProjectExit(ok)

NextRun ==
  \/ BuildAll
  \/ \E ok \in BOOLEAN : ProjectExit(ok)
  \/ \E p \in {discovered[i].projectId : i \in 1..Len(discovered)} : DirectStart(p)
  \/ DirectExit

(* ------------------------------ renderer ------------------------------- *)
AllUnchanged ==
  /\ UNCHANGED <<menu, pageDefs, contentUnits, config, commands, budget, now, dirs,
                 latest, dist, backups, lastBuilt, project, templates,
                 templateVersion, pc, options, output, dependencyGraph, queue,
                 pending, rendered, written, failed, isolated, buildNo, outcome,
                 events, history, projectConfig>>
  /\ UNCHANGED <<legacy, buildQueue, debounceTimer, isBuilding, batch, running,
                 notes, round>>
  /\ UNCHANGED <<discovered, runOptions, run, direct, descriptors>>

\* a lookup that tries the shared pool first
ResolveSharedFirst(p, filename) ==
  IF p.build.present /\ p.build.useSharedAssets /\ filename \in p.shared
  THEN AssetPath("shared", filename)
  ELSE IF filename \in p.project THEN AssetPath("project", filename)
  ELSE NotFound

\* resolveAssetPath: the project's assets first, the shared ones when
\* build?.useSharedAssets is set, else a warning and null
ResolveAssetPath(p, filename) ==
  IF filename \in p.project THEN AssetPath("project", filename)
  ELSE IF p.build.present /\ p.build.useSharedAssets /\ filename \in p.shared
  THEN AssetPath("shared", filename)
  ELSE NotFound

\* steps 1 and 2 of copyAssets: the shared assets go to assets/shared, then
\* the project's assets to assets, overwriting what is there
LayerAssets(p) ==
  LET sharedLayer == IF p.build.useSharedAssets
                     THEN {[path |-> <<"shared">> \o n, from |-> AssetPath("shared", n)]
                             : n \in p.shared}
                     ELSE {}
      projectLayer == {[path |-> n, from |-> AssetPath("project", n)] : n \in p.project}
  IN projectLayer \cup {e \in sharedLayer : e.path \notin p.project}

\* a template or helper asks for an asset
Lookup(filename) ==
  /\ lookup' = [filename |-> filename, path |-> ResolveAssetPath(pools, filename)]
  /\ UNCHANGED <<pools, outputAssets, forms, render>>
  /\ AllUnchanged

\* copyAssets of a build of the project
CopyAssetLayers ==
  /\ pools.build.present
  /\ outputAssets' = LayerAssets(pools)
  /\ UNCHANGED <<pools, lookup, forms, render>>
  /\ AllUnchanged

NextAssets ==
  \/ \E filename \in AssetNames : Lookup(filename)
  \/ CopyAssetLayers

\* a renderPage that merges into the blocks the last render left behind
KeepBlocks(blocks) == blocks

\* this.combinedBlocks = {}
ResetBlocks(blocks) == <<>>

\* this.combinedBlocks after the sources.forEach of renderPage(p): the blocks
\* of the sources of p are merged in their order into the emptied object,
\* up to the first source loadContentData does not find; a page definition
\* that does not load leaves the object as it was
CombinedBlocks(blocks, defs, units, p) ==
  IF ~Loadable(defs, p) THEN blocks
  ELSE LET srcs == Sources(defs[p])
           lost == {i \in 1..Len(srcs) : srcs[i] \notin units}
           n == IF lost = {} THEN Len(srcs)
                ELSE (CHOOSE i \in lost : \A k \in lost : i <= k) - 1
       IN ResetBlocks(blocks) \o SubSeq(srcs, 1, n)

\* the markup renderPage returns: the page, the content blocks it finds in
\* this.combinedBlocks, and the id the fieldId helper gives a form field
\* without a name
Html(blocks, nameless, p, draw) ==
  [page |-> p, blocks |-> blocks,
   fields |-> IF \E c \in Range(blocks) : c \in nameless THEN draw
              ELSE None]

\* the pages of a full rebuild, in menu order
RenderOrder == AllPages(menu)

\* the callback of pages.map for the next page, up to the await in
\* buildPage: renderPage has no await and runs to its end, the markup it
\* returns waits in buildPage for the continuation
RenderPage(draw) ==
  /\ render.build \in 1..2
  /\ render.next <= Len(RenderOrder)
  /\ LET p == RenderOrder[render.next]
         blocks == CombinedBlocks(render.combinedBlocks, pageDefs, contentUnits, p)
     IN render' = [render EXCEPT
                     !.next = @ + 1,
                     !.combinedBlocks = blocks,
                     !.local[p] =
                        IF RenderOK(pageDefs, contentUnits, p)
                        THEN Html(blocks, forms, p, draw) ELSE NoHtml]
  /\ UNCHANGED <<pools, lookup, outputAssets, forms>>
  /\ AllUnchanged

\* the continuation of buildPage(p) after its await: writeHTML of the markup
\* renderPage returned
WritePage(p) ==
  /\ render.build \in 1..2
  /\ render.local[p] # NoHtml
  /\ render' = [render EXCEPT !.html[render.build][p] = render.local[p],
                              !.local[p] = NoHtml]
  /\ UNCHANGED <<pools, lookup, outputAssets, forms>>
  /\ AllUnchanged

\* Promise.all of the first full rebuild has settled and the second one
\* starts
NextRebuild ==
  /\ render.next > Len(RenderOrder)
  /\ \A p \in Pages : render.local[p] = NoHtml
  /\ render.build = 1
  /\ render' = [render EXCEPT !.build = 2, !.next = 1]
  /\ UNCHANGED <<pools, lookup, outputAssets, forms>>
  /\ AllUnchanged

NextRender ==
  \/ \E draw \in FieldDraws : RenderPage(draw)
  \/ \E p \in Pages : WritePage(p)
  \/ NextRebuild

NextWatch ==
  \/ \E f \in WatchedFiles : HandleChange(f)
  \/ Tick
  \/ ProcessQueue
  \/ \E ok \in BOOLEAN : CommandExit(ok)

Next ==
  \/ \E opts \in commands, gap \in 0..MaxGap : Start(opts, gap)
  \/ \E i \in pending : BuildPage(i)
  \/ RenderingDone
  \/ CopyAssets
  \/ \E platformOk \in BOOLEAN : CreateLatestSymlink(platformOk)
  \/ CleanupOldBuilds
  \/ \E k \in 0..Cardinality(Entries) : PromoteToStable(k)
  \/ UpdateBuildTimestamp

(* ------------------------- initial states ------------------------------ *)
DefaultConfig ==
  [maxBuildsToKeep |-> MaxKeep, createSymlinkToLatest |-> TRUE,
   promoteToDist |-> FALSE, outputToTimestampedFolder |-> TRUE, hasAssets |-> TRUE]
\* the default configuration and every configuration one setting away from it
Configs ==
  {DefaultConfig}
    \cup {[DefaultConfig EXCEPT !.maxBuildsToKeep = n] : n \in 1..MaxKeep}
    \cup {[DefaultConfig EXCEPT !.createSymlinkToLatest = FALSE],
          [DefaultConfig EXCEPT !.promoteToDist = TRUE],
          [DefaultConfig EXCEPT !.outputToTimestampedFolder = FALSE],
          [DefaultConfig EXCEPT !.hasAssets = FALSE]}

\* the watcher after its constructor
InitWatcher ==
  /\ buildQueue = <<>>
  /\ debounceTimer = NoTimer
  /\ isBuilding = FALSE
  /\ batch = <<>>
  /\ running = NoCmd
  /\ notes = [received |-> 0, taken |-> 0, built |-> 0, bursts |-> 0, runs |-> 0,
              sinceLast |-> Debounce, outstanding |-> 0, failedOnce |-> FALSE]
  /\ round = [files |-> <<>>, cmds |-> <<>>, failed |-> FALSE]

\* no multi-project run and no build by hand
InitRunner ==
  /\ discovered = <<>>
  /\ runOptions = [all |-> FALSE, projects |-> {}, promote |-> FALSE,
                   stopOnError |-> FALSE]
  /\ run = IdleRun
  /\ direct = NoProject
  /\ descriptors = <<>>

\* no asset is looked up and no page compared
InitRenderer ==
  /\ pools = [project |-> {}, shared |-> {},
              build |-> [present |-> TRUE, useSharedAssets |-> FALSE]]
  /\ lookup = [filename |-> NoName, path |-> NotFound]
  /\ outputAssets = {}
  /\ forms = {}
  /\ render = [build |-> 0, next |-> 1, combinedBlocks |-> <<>>,
              local |-> [p \in Pages |-> NoHtml],
              html |-> [b \in 1..2 |-> [p \in Pages |-> NoHtml]]]

\* the file system of a project that has not been built yet
InitFiles ==
  /\ projectConfig = project
  /\ now = 1
  /\ dirs = <<>>
  /\ latest = NoDir
  /\ dist = [exists |-> FALSE, files |-> {}]
  /\ backups = {}
  /\ lastBuilt = 0
  /\ templateVersion = NoVersion
  /\ pc = "idle"
  /\ options = [fullRebuild |-> FALSE, file |-> NoFile, promote |-> FALSE]
  /\ output = NoDir
  /\ dependencyGraph = EmptyGraph
  /\ queue = <<>>
  /\ pending = {}
  /\ rendered = {}
  /\ written = {}
  /\ failed = {}
  /\ isolated = TRUE
  /\ buildNo = 0
  /\ outcome = "none"
  /\ events = NoEvents
  /\ history = [succeeded |-> 0, created |-> {}, pages |-> {}]

\* one build of any project: every menu, page-definition and content choice
Init ==
  /\ menu \in Menus
  /\ pageDefs \in [Pages -> PageDefChoices]
  /\ contentUnits \in {{"a", "b"}, {"a"}}
  /\ config = DefaultConfig
  /\ commands = Options
  /\ project = GoodProject
  /\ templates = Versions
  /\ budget = 1
  /\ InitFiles
  /\ legacy = FALSE
  /\ InitWatcher
  /\ InitRunner
  /\ InitRenderer

Spec == Init /\ [][Next]_vars

\* a history of builds of one project under every configuration: home
\* renders, about does not (its content unit has no file)
InitHist ==
  /\ menu = MenuSmall
  /\ pageDefs = [p \in Pages |->
                   IF p = "home" THEN Single("a")
                   ELSE IF p = "about" THEN Single("b")
                   ELSE Missing]
  /\ contentUnits = {"a"}
  /\ config \in Configs
  /\ commands = {o \in Options : o.file.kind \in {"none", "content"}
                                  /\ o.fullRebuild = (o.file.kind = "none")}
  /\ project = GoodProject
  /\ templates = Versions
  /\ budget = MaxBuilds
  /\ InitFiles
  /\ legacy = FALSE
  /\ InitWatcher
  /\ InitRunner
  /\ InitRenderer

SpecHist == InitHist /\ [][Next]_vars

\* builds of one project whose descriptor and template library vary: both
\* pages render, each from its own content unit; the builds are full
\* rebuilds with promotion and incremental builds for content unit b; the
\* descriptor has any version and policy, or is read-only
InitProject ==
  /\ menu = MenuSmall
  /\ pageDefs = [p \in Pages |->
                   IF p = "home" THEN Single("a")
                   ELSE IF p = "about" THEN Single("b")
                   ELSE Missing]
  /\ contentUnits = {"a", "b"}
  /\ config = DefaultConfig
  /\ commands = {[fullRebuild |-> TRUE, file |-> NoFile, promote |-> TRUE],
                 [fullRebuild |-> FALSE, file |-> ContentFile("b"), promote |-> FALSE]}
  /\ project \in {Descriptor("ok", v, pol, TRUE) : v \in Versions, pol \in Policies}
                    \cup {Descriptor("ok", "v1", "manual", FALSE)}
  /\ templates = Versions
  /\ budget = ProjectBuilds
  /\ InitFiles
  /\ legacy = FALSE
  /\ InitWatcher
  /\ InitRunner
  /\ InitRenderer

NextProject ==
  \/ Next
  \/ \E how \in {"absent", "unparseable"} : DescriptorLost(how)
  \/ \E v \in Versions : TemplateRemoved(v)

SpecProject == InitProject /\ [][NextProject]_vars

\* a watcher of either kind over a project that loads; timers fire and
\* spawned commands exit
InitWatch ==
  /\ menu = MenuSmall
  /\ pageDefs = [p \in Pages |->
                   IF p = "home" THEN Single("a")
                   ELSE IF p = "about" THEN Single("b")
                   ELSE Missing]
  /\ contentUnits = {"a", "b"}
  /\ config = DefaultConfig
  /\ commands = {}
  /\ project = GoodProject
  /\ templates = Versions
  /\ budget = 0
  /\ InitFiles
  /\ legacy \in BOOLEAN
  /\ InitWatcher
  /\ InitRunner
  /\ InitRenderer

SpecWatch ==
  /\ InitWatch
  /\ [][NextWatch]_vars
  /\ WF_vars(Tick)
  /\ WF_vars(ProcessQueue)
  /\ WF_vars(\E ok \in BOOLEAN : CommandExit(ok))

\* the scans discoverProjects can return: distinct project directories in
\* any order, each active or archived
RECURSIVE Scans(_)
Scans(ids) ==
  {<<>>} \cup
  UNION {{<<Found(id, st)>> \o rest : st \in Statuses, rest \in Scans(ids \ {id})}
         : id \in ids}

\* one run of the multi-project runner under every scan and every option,
\* with builds started by hand beside it
InitRun ==
  /\ menu = MenuSmall
  /\ pageDefs = [p \in Pages |->
                   IF p = "home" THEN Single("a")
                   ELSE IF p = "about" THEN Single("b")
                   ELSE Missing]
  /\ contentUnits = {"a", "b"}
  /\ config = DefaultConfig
  /\ commands = {}
  /\ project = GoodProject
  /\ templates = Versions
  /\ budget = 0
  /\ InitFiles
  /\ legacy = FALSE
  /\ InitWatcher
  /\ discovered \in Scans(ProjectIds)
  /\ descriptors = [i \in 1..Len(discovered) |->
                      OnDisk(discovered[i].projectId, discovered[i].status,
                             discovered[i].status)]
  /\ runOptions \in RunOptions
  /\ run = IdleRun
  /\ direct = NoProject
  /\ InitRenderer

SpecRun == InitRun /\ [][NextRun]_vars

\* the idle installation around the renderer
InitIdle ==
  /\ menu = MenuSmall
  /\ contentUnits = {"a", "b"}
  /\ config = DefaultConfig
  /\ commands = {}
  /\ project = GoodProject
  /\ templates = Versions
  /\ budget = 0
  /\ InitFiles
  /\ legacy = FALSE
  /\ InitWatcher
  /\ InitRunner

\* asset lookups and the asset copy of a build, over every pair of pools
InitAssets ==
  /\ InitIdle
  /\ pageDefs = [p \in Pages |->
                   IF p = "home" THEN Single("a")
                   ELSE IF p = "about" THEN Single("b")
                   ELSE Missing]
  /\ pools \in [project : SUBSET AssetNames, shared : SUBSET AssetNames,
                build : BuildSettings]
  /\ lookup = [filename |-> NoName, path |-> NotFound]
  /\ outputAssets = {}
  /\ forms = {}
  /\ render = [build |-> 0, next |-> 1, combinedBlocks |-> <<>>,
              local |-> [p \in Pages |-> NoHtml],
              html |-> [b \in 1..2 |-> [p \in Pages |-> NoHtml]]]

SpecAssets == InitAssets /\ [][NextAssets]_vars

\* two full rebuilds in a row of a project whose pages take one or both
\* content units, any of which may hold a form field without a name
InitRender ==
  /\ InitIdle
  /\ pageDefs \in {[p \in Pages |->
                      IF p = "home" THEN h ELSE IF p = "about" THEN a ELSE Missing]
                     : h, a \in {Single("a"), Single("b"), Multi(<<"a", "b">>)}}
  /\ pools = [project |-> {}, shared |-> {},
              build |-> [present |-> TRUE, useSharedAssets |-> FALSE]]
  /\ lookup = [filename |-> NoName, path |-> NotFound]
  /\ outputAssets = {}
  /\ forms \in SUBSET Content
  /\ render = [build |-> 1, next |-> 1, combinedBlocks |-> <<>>,
              local |-> [p \in Pages |-> NoHtml],
              html |-> [b \in 1..2 |-> [p \in Pages |-> NoHtml]]]

SpecRender == InitRender /\ [][NextRender]_vars

\* builds of one project by one builder instance that is asked to build
\* again, with page definitions edited between the builds
InitInstance ==
  /\ menu = MenuSmall
  /\ pageDefs = [p \in Pages |->
                   IF p = "home" THEN Single("a")
                   ELSE IF p = "about" THEN Single("b")
                   ELSE Missing]
  /\ contentUnits = {"a", "b"}
  /\ config = DefaultConfig
  /\ commands = {[fullRebuild |-> TRUE, file |-> NoFile, promote |-> TRUE],
                 [fullRebuild |-> FALSE, file |-> ContentFile("a"), promote |-> FALSE]}
  /\ project = GoodProject
  /\ templates = Versions
  /\ budget = ProjectBuilds
  /\ InitFiles
  /\ legacy = FALSE
  /\ InitWatcher
  /\ InitRunner
  /\ InitRenderer

NextInstance ==
  \/ Next
  \/ \E opts \in commands, gap \in 0..MaxGap : StartAgain(opts, gap)
  \/ \E p \in {"home", "about"}, def \in {Single("a"), Single("b")} : EditPageDef(p, def)

SpecInstance == InitInstance /\ [][NextInstance]_vars

\* builds of one project while the project CLI archives it or changes its
\* template version
NextEdit ==
  \/ Next
  \/ ArchiveDescriptor
  \/ \E v \in Versions, pol \in {"manual", "auto"} : UpgradeTemplate(v, pol)

SpecEdit == InitInstance /\ [][NextEdit]_vars

RECURSIVE DiskScans(_)
\* the project directories as the project CLI creates them, in any scan
\* order: projectStatus active, a status field active or none
DiskScans(ids) ==
  {<<>>} \cup
  UNION {{<<OnDisk(id, st, "active")>> \o rest :
            st \in {"absent", "active"}, rest \in DiskScans(ids \ {id})}
         : id \in ids}

\* projects are archived, then the multi-project runner runs
InitArchive ==
  /\ menu = MenuSmall
  /\ pageDefs = [p \in Pages |->
                   IF p = "home" THEN Single("a")
                   ELSE IF p = "about" THEN Single("b")
                   ELSE Missing]
  /\ contentUnits = {"a", "b"}
  /\ config = DefaultConfig
  /\ commands = {}
  /\ project = GoodProject
  /\ templates = Versions
  /\ budget = 0
  /\ InitFiles
  /\ legacy = FALSE
  /\ InitWatcher
  /\ descriptors \in DiskScans(ProjectIds)
  /\ discovered = DiscoverProjects(descriptors)
  /\ runOptions \in RunOptions
  /\ run = IdleRun
  /\ direct = NoProject
  /\ InitRenderer

SpecArchive == InitArchive /\ [][NextArchive]_vars

(* ------------------------------ claims --------------------------------- *)
\* the running (or last) build is an incremental build for a content unit
Incremental == buildNo > 0 /\ ~options.fullRebuild /\ options.file.kind = "content"
\* the running (or last) build is a full rebuild, whatever asked for it
FullScope == buildNo > 0 /\ ~Incremental
\* the last build has returned
Returned == pc = "idle" /\ outcome \in {"success", "failure"}

RECURSIVE NodeIds(_)
\* the page ids of a navigation node and of everything below it
NodeIds(item) ==
  (IF item.id # NoId THEN {item.id} ELSE {})
    \cup UNION {NodeIds(item.children[i]) : i \in 1..Len(item.children)}
\* every page id reachable from the primary and the footer navigation
NavIds(m) ==
  UNION {NodeIds(m.primaryNavigation[i]) : i \in 1..Len(m.primaryNavigation)}
    \cup UNION {NodeIds(m.footerNavigation[i]) : i \in 1..Len(m.footerNavigation)}

\* C1: an incremental build whose changed file names content unit c calls
\* renderPage for exactly the page ids of dependencyGraph[c], and writes
\* output for no page outside that set.
C1_IncrementalScope ==
  Incremental =>
    LET dependents == Range(dependencyGraph[options.file.id])
    IN /\ rendered \subseteq dependents
       /\ written \subseteq dependents
       /\ (pc # "render" => rendered = dependents)

\* an incremental build has rendered two dependents and left a page out
C1_Witness ==
  /\ Incremental
  /\ pc = "assets"
  /\ Cardinality(rendered) = 2
  /\ written = rendered
  /\ NavIds(menu) \ rendered # {}

\* the content-unit ids a page definition declares
Declared(def) ==
  (IF def.contentSource # None THEN {def.contentSource} ELSE {})
    \cup (IF def.hasSources THEN Range(def.contentSources) ELSE {})

\* C2: once the dependency graph is built, dependencyGraph[c] is, for every
\* content unit c, the set of pages of the navigation tree (primary and
\* footer) whose loadable definition declares c among its sources.
C2_GraphComplete ==
  buildNo > 0 =>
    \A c \in Content :
      Range(dependencyGraph[c]) =
        {p \in NavIds(menu) : Loadable(pageDefs, p) /\ c \in Declared(pageDefs[p])}

\* C3: a build asked for with fullRebuild, with no file, or with a changed
\* file that is not a content file dispatches and renders every page id
\* reachable from the primary and the footer navigation.
C3_FullScope ==
  FullScope =>
    /\ Range(queue) = NavIds(menu)
    /\ rendered \subseteq NavIds(menu)
    /\ (pc # "render" => rendered = NavIds(menu))

\* a changed layout file made the build render a footer-only page as well
C3_Witness ==
  /\ FullScope
  /\ ~options.fullRebuild
  /\ options.file.kind = "other"
  /\ pc = "assets"
  /\ menu = MenuGroup
  /\ "contact" \in rendered
  /\ rendered = NavIds(menu)

\* C4: in every build mode, a build in which one in-scope page failed and
\* another was written goes on through asset copy, marker and metadata and
\* returns success.
C4_PageFailureIsolated ==
  (Returned /\ failed # {} /\ written # {}) =>
    (outcome = "success" /\ lastBuilt = buildNo)

\* C5: a build with a non-empty render scope in which no page was rendered
\* successfully returns failure.
C5_ZeroPagesFails ==
  (Returned /\ queue # <<>> /\ written = {}) => outcome = "failure"

\* the project keeps timestamped build records and a "latest" marker
Timestamped == config.outputToTimestampedFolder /\ config.createSymlinkToLatest
\* the last build returned success, no page failed, and neither the marker
\* update nor a promotion reported a problem
ErrorFree ==
  /\ Returned
  /\ outcome = "success"
  /\ failed = {}
  /\ events.marker = "ok"
  /\ events.promotion # "failed"

\* C6: while a build is still rendering pages or copying assets, "latest"
\* does not resolve to the directory that build writes into.
C6_MarkerNotInProgress ==
  (Timestamped /\ pc \in {"render", "assets"}) => Resolve(latest, dirs) # output

\* C7: when a successful, error-free build that wrote pages has returned,
\* "latest" resolves to the directory that build wrote, and that directory
\* is not one a prior build wrote.
C7_MarkerCorrect ==
  (Timestamped /\ ErrorFree /\ written # {}) =>
    /\ Resolve(latest, dirs) = output
    /\ dirs[output].builds = {buildNo}

\* C8: once "latest" resolves to a build directory, every step of a later
\* build leaves it resolving to that directory or to the new one; it is
\* never absent.
C8_MarkerAtomic ==
  [][Resolve(latest, dirs) # NoDir =>
       Resolve(latest', dirs') \in {Resolve(latest, dirs), output'}]_vars

\* C9: when a successful build has returned and more successful builds than
\* the retention cap have run, exactly cap build directories remain and
\* every deleted one was created before every remaining one.
C9_Retention ==
  (Timestamped /\ config.hasAssets /\ Returned /\ outcome = "success"
     /\ history.succeeded > config.maxBuildsToKeep) =>
    /\ Cardinality(BuildDirs(dirs)) = config.maxBuildsToKeep
    /\ \A d \in history.created :
         d.name \notin DOMAIN dirs =>
           \A n \in BuildDirs(dirs) : d.created < dirs[n].created

\* C10: a promotion, at whatever entry its copy stops, leaves the complete
\* content of the previous _dist in a new backup, and no step ever removes
\* or changes a backup.
C10_BackupPreserved ==
  [][/\ backups \subseteq backups'
     /\ (pc = "promote" /\ pc' = "timestamp" /\ dist.exists) =>
          \E b \in backups' \ backups : b.files = dist.files]_vars

\* a promotion failed in mid-copy over a previous release, whose files are
\* in the backup this build made
C10_Witness ==
  /\ events.promotion = "failed"
  /\ events.prior.exists
  /\ Cardinality(events.prior.files) > 1
  /\ dist.files # events.prior.files
  /\ [name |-> buildNo, files |-> events.prior.files] \in backups

\* the step belongs to a build: it starts one or happens inside one
BuildStep == buildNo' # buildNo \/ pc # "idle"
\* the version the policy of a descriptor asks for
Effective(proj) ==
  IF proj.upgradePolicy = "auto" THEN LatestVersion ELSE proj.version

\* C11: every step that changes _dist leaves it existing and holding exactly
\* the entries of the promoted build directory; it is never missing, empty
\* or partial once a promotion has touched it.
C11_StableComplete ==
  [][dist' # dist =>
       /\ dist'.exists
       /\ output \in DOMAIN dirs
       /\ dist'.files = dirs[output].files]_vars

\* C12: when the promotion of a build has failed and the build has returned,
\* the build returned success, its build directory is in place, "latest"
\* resolves to it and the last-build timestamp of this build is persisted.
C12_PromotionFailureTolerated ==
  (Returned /\ events.promotion = "failed" /\ events.marker = "ok") =>
    /\ outcome = "success"
    /\ Resolve(latest, dirs) = output
    /\ lastBuilt = buildNo

\* C13: after a failed update of "latest" the build goes on: once it has
\* returned it returned success, and retention, promotion (when requested)
\* and the metadata step have run.
C13_MarkerFailureTolerated ==
  events.marker = "failed" =>
    /\ pc \in {"cleanup", "promote", "timestamp", "idle"}
    /\ pc = "idle" =>
         /\ outcome = "success"
         /\ {"cleanup", "timestamp"} \subseteq events.steps
         /\ (config.promoteToDist \/ options.promote) => "promote" \in events.steps

\* a second build could not replace "latest", promoted and returned success
C13_Witness ==
  /\ events.marker = "failed"
  /\ Returned
  /\ outcome = "success"
  /\ buildNo = 2
  /\ events.steps = {"cleanup", "promote", "timestamp"}
  /\ dist.exists

\* C14: no step of a build for which neither the promote option nor the
\* promoteToDist setting asks for promotion changes _dist or its backups.
C14_NoPromotionNoWrite ==
  [][(BuildStep /\ ~(config.promoteToDist \/ options'.promote)) =>
       UNCHANGED <<dist, backups>>]_vars

\* a build without promotion failed after an earlier build had promoted, and
\* the release and its backup are still there
C14_Witness ==
  /\ Returned
  /\ outcome = "failure"
  /\ ~config.promoteToDist
  /\ ~options.promote
  /\ dist.exists
  /\ backups # {}

\* C15: the step on which a build returns success persists a new lastBuilt,
\* and every other step of a build, the one on which it returns failure
\* included, leaves the persisted descriptor as it is.
C15_TimestampPersisted ==
  [][BuildStep =>
       IF pc' = "idle" /\ outcome' = "success"
       THEN lastBuilt' = buildNo /\ lastBuilt' # lastBuilt
       ELSE UNCHANGED <<project, lastBuilt>>]_vars

\* C16: no step of a build changes a field of the descriptor other than
\* lastBuilt.
C16_OnlyTimestampChanges ==
  [][BuildStep => project' = project]_vars

\* C17: the template version of a running build is the latest version under
\* the policy auto and the declared version under manual, locked or no
\* policy, and no step of a build changes the declared version or the policy.
C17_EffectiveVersion ==
  [][BuildStep =>
       /\ project'.version = project.version
       /\ project'.upgradePolicy = project.upgradePolicy
       /\ pc' # "idle" => templateVersion' = Effective(project')]_vars

\* a build under the policy auto used v2, returned success and wrote the
\* descriptor back with v1 still declared
C17_Witness ==
  /\ Returned
  /\ outcome = "success"
  /\ project.upgradePolicy = "auto"
  /\ project.version = "v1"
  /\ templateVersion = LatestVersion
  /\ lastBuilt = buildNo

\* C18: a build started while the descriptor is absent or unparseable, or
\* while the directory of the resolved template version is missing, returns
\* failure on that step: nothing is rendered or written, and the build
\* directories, "latest", _dist, its backups and the descriptor are unchanged.
C18_FatalBeforeWork ==
  [][(buildNo' # buildNo
        /\ (project.loads # "ok" \/ Effective(project) \notin templates)) =>
       /\ pc' = "idle"
       /\ outcome' = "failure"
       /\ rendered' = {}
       /\ written' = {}
       /\ UNCHANGED <<dirs, latest, dist, backups, project, lastBuilt>>]_vars

\* the second build found no descriptor and left the first build's output,
\* marker and release as they were
C18_Witness ==
  /\ Returned
  /\ outcome = "failure"
  /\ buildNo = 2
  /\ project.loads = "absent"
  /\ queue = <<>>
  /\ rendered = {}
  /\ Resolve(latest, dirs) # NoDir
  /\ dist.exists
  /\ lastBuilt = 1

\* C19: when a successful build whose marker update worked has returned,
\* the directory "latest" resolves to holds a page for every page id of the
\* navigation tree that some build has rendered successfully.
C19_LatestComplete ==
  (Timestamped /\ Returned /\ outcome = "success" /\ events.marker = "ok"
     /\ Resolve(latest, dirs) # NoDir) =>
    (history.pages \cap NavIds(menu)) \subseteq dirs[Resolve(latest, dirs)].files

\* C20: under the multi-project watcher, every notification received is
\* eventually among those a started build was triggered for: for each k, once
\* k notifications are in, a build triggered by a set holding the k-th starts.
C20_EveryChangeBuilt ==
  \A k \in 1..MaxNotes :
    (~legacy /\ notes.received >= k) ~> (notes.built >= k)

\* the set of paths the last processQueue took holds a global path
HasGlobal(files) == \E i \in 1..Len(files) : files[i].kind = "global"
\* the content-unit ids the paths of a set implicate
Implicated(files) ==
  {files[i].id : i \in {j \in 1..Len(files) : files[j].kind = "content"}}

\* C21: a processQueue that took a set of paths with a global path in it
\* spawns one command, the full rebuild, and no build for a single file.
C21_GlobalFullOnce ==
  HasGlobal(round.files) => round.cmds = <<FullCmd>>

\* the single-site watcher took a global path together with content files
\* and ended after one full rebuild
C21_Witness ==
  /\ legacy
  /\ HasGlobal(round.files)
  /\ Implicated(round.files) # {}
  /\ running = NoCmd
  /\ ~isBuilding
  /\ round.cmds = <<FullCmd>>

\* C22: a processQueue that took a set without a global path and whose
\* commands all succeeded has spawned exactly one incremental build for each
\* content-unit id implicated by the set.
C22_OnePerContentUnit ==
  (round.files # <<>> /\ ~HasGlobal(round.files) /\ running = NoCmd
     /\ ~round.failed) =>
    /\ Range(round.cmds) =
         {PageCmd(ContentFile(c)) : c \in Implicated(round.files)}
    /\ Len(round.cmds) = Cardinality(Implicated(round.files))

\* C23: processQueue runs only when Debounce ticks have passed since the
\* last notification, it runs once for each burst, and when it takes the
\* queue it takes every path received since the last take.
C23_Debounce ==
  [][/\ notes'.runs <= notes'.bursts
     /\ notes'.bursts <= notes'.runs + 1
     /\ notes'.runs # notes.runs =>
          /\ notes.sinceLast >= Debounce
          /\ debounceTimer' = NoTimer
          /\ IF isBuilding THEN buildQueue' = buildQueue
             ELSE /\ round'.files = buildQueue
                  /\ Len(buildQueue) = notes.received - notes.taken
                  /\ buildQueue' = <<>>]_vars

\* three notifications came as one burst and were taken by one processQueue
C23_Witness ==
  /\ notes.received = 3
  /\ notes.bursts = 1
  /\ notes.runs = 1
  /\ Len(round.files) = 3
  /\ debounceTimer = NoTimer

\* the discovered projects that pass the filters of the run
Selected ==
  {discovered[i].projectId :
     i \in {j \in 1..Len(discovered) :
              /\ runOptions.all \/ discovered[j].status = "active"
              /\ runOptions.projects = {} \/ discovered[j].projectId \in runOptions.projects}}

StartedIds == [i \in 1..Len(run.started) |-> run.started[i].projectId]

Position(id) == CHOOSE i \in 1..Len(ProjectOrder) : ProjectOrder[i] = id

Aborted ==
  /\ runOptions.stopOnError
  /\ \E i \in 1..Len(run.results) : run.results[i].status = "failed"

\* C24: the runner starts builds only for discovered projects that pass the
\* status filter (active, unless all are requested) and the allow-list, in
\* strictly ascending order of project id (so none twice), and a run that
\* ends without being stopped at a failure has started every one of them
C24_SelectionInOrder ==
  /\ \A i \in 1..Len(run.started) : StartedIds[i] \in Selected
  /\ \A i, j \in 1..Len(run.started) :
       i < j => Position(StartedIds[i]) < Position(StartedIds[j])
  /\ (run.pc = "exited" /\ ~Aborted) => Range(StartedIds) = Selected

C24_Witness ==
  /\ run.pc = "exited"
  /\ Len(discovered) = 3
  /\ discovered[1].projectId = "shop"
  /\ discovered[2].projectId = "acme"
  /\ discovered[3].status = "archived"
  /\ ~runOptions.all
  /\ StartedIds = <<"acme", "shop">>

\* C25: without stop-on-first-failure a finished run has started the build
\* of every selected project whatever failed; with it no build is started
\* after the first failed one; every started build but the running one has
\* run to its end and has its result recorded
C25_StopOnFirstFailure ==
  /\ (run.pc = "exited" /\ ~runOptions.stopOnError) => Range(StartedIds) = Selected
  /\ runOptions.stopOnError =>
       \A i \in 1..Len(run.results) :
         run.results[i].status = "failed" => Len(run.started) = i
  /\ Len(run.results) = Len(run.started) - (IF run.pc = "building" THEN 1 ELSE 0)
  /\ \A i \in 1..Len(run.results) : run.results[i].projectId = StartedIds[i]

C25_Witness ==
  /\ run.pc = "exited"
  /\ runOptions.stopOnError
  /\ Cardinality(Selected) = 3
  /\ Len(run.started) = 2
  /\ run.results[1].status = "success"
  /\ run.results[2].status = "failed"

\* C26: a run that has ended signals success (exit code 0) exactly when
\* every selected project has a successful build
C26_AggregateSuccess ==
  run.pc = "exited" =>
    (run.exit = 0 <=>
       \A p \in Selected :
         \E i \in 1..Len(run.results) : run.results[i] = Result(p, TRUE))

C26_Witness ==
  /\ run.pc = "exited"
  /\ ~runOptions.stopOnError
  /\ Len(run.results) = 3
  /\ run.results[2].status = "failed"
  /\ run.results[3].status = "success"
  /\ run.exit = 1

\* C27: a run that started a build and has ended has produced a final report
\* with one outcome per started project, in build order, also when it was
\* stopped at the first failure
C27_FinalReport ==
  (run.pc = "exited" /\ run.started # <<>>) =>
    /\ run.reported
    /\ Len(run.report) = Len(run.started)
    /\ \A i \in 1..Len(run.report) : run.report[i].projectId = StartedIds[i]

\* C28: no project has two builds in progress at once, whichever drivers
\* started them
C28_OneBuildPerProject ==
  ~(run.pc = "building" /\ direct # NoProject /\ run.current = direct)


C30_Idempotent ==
  (render.build = 2 /\ render.next > Len(RenderOrder)
     /\ \A p \in Pages : render.local[p] = NoHtml) =>
    \A p \in Pages : render.html[1][p] = render.html[2][p]


\* C31: no build directory holds what two build invocations wrote: every
\* invocation writes its pages and assets into a build directory of its own
C31_OwnDirectory ==
  \A n \in BuildDirs(dirs) : Cardinality(dirs[n].builds) <= 1

\* the page ids of the primary navigation, which buildDependencyGraph walks
PrimaryIds(m) == Range(CollectAll(m.primaryNavigation))

\* C32: once the graph is built, a node of the walk whose definition cannot
\* load is in no edge, and every node of the walk whose definition loads and
\* names a content unit has its edge, also when it is the child of, or comes
\* after, a node that cannot load
C32_UnloadableSkipped ==
  (buildNo > 0 /\ outcome # "none") =>
    \A p \in PrimaryIds(menu) :
      IF Loadable(pageDefs, p)
      THEN GraphKey(pageDefs[p]) # None =>
             \E i \in 1..Len(dependencyGraph[GraphKey(pageDefs[p])]) :
               dependencyGraph[GraphKey(pageDefs[p])][i] = p
      ELSE \A c \in Content : p \notin Range(dependencyGraph[c])

C32_Witness ==
  /\ menu = MenuNested
  /\ ~Loadable(pageDefs, "home")
  /\ pageDefs["about"] = Single("a")
  /\ pc = "render"
  /\ dependencyGraph["a"] = <<"about">>
  /\ "about" \in written

\* C38: the cleanup of a build deletes exactly the build directories that
\* have at least maxBuildsToKeep newer ones, and, the cap being at least 1,
\* never the directory this build wrote, nor the one "latest" resolves to;
\* it leaves the marker, the stable release and its backups as they are
C38_RetentionFrame ==
  [][(pc = "cleanup" /\ pc' # "cleanup" /\ config.maxBuildsToKeep >= 1) =>
       LET gone == DOMAIN dirs \ DOMAIN dirs'
       IN /\ gone \subseteq BuildDirs(dirs)
          /\ \A n \in gone :
               Cardinality({m \in BuildDirs(dirs) : dirs[m].mtime > dirs[n].mtime})
                 >= config.maxBuildsToKeep
          /\ output \notin gone
          /\ Resolve(latest, dirs) \notin gone
          /\ \A n \in DOMAIN dirs' : dirs'[n] = dirs[n]
          /\ latest' = latest
          /\ dist' = dist
          /\ backups' = backups]_vars

C38_Witness ==
  /\ "cleanup" \in events.steps
  /\ config.maxBuildsToKeep = 1
  /\ Cardinality(history.created) >= 2
  /\ BuildDirs(dirs) = {output}
  /\ Resolve(latest, dirs) = output
  /\ dist.exists
  /\ backups # {}


\* C33: the dependency graph a build uses is the graph a fresh builder
\* computes from the navigation tree and the page definitions as they are at
\* that build
C33_GraphRecomputed ==
  (pc # "idle" /\ templateVersion # NoVersion) =>
    dependencyGraph = BuildDependencyGraph(menu, pageDefs)

\* C37: a multi-project run without include-all starts no build for a
\* project that was archived before the run
C37_ArchivedNotBuilt ==
  ~runOptions.all =>
    \A i \in 1..Len(run.started) :
      \A j \in 1..Len(descriptors) :
        descriptors[j].projectId = StartedIds[i] =>
          descriptors[j].projectStatus # "archived"

\* C39: when a build persists its metadata, what a project-management
\* command wrote to the descriptor during the build (status, declared
\* version, upgrade policy) is in the persisted descriptor afterwards
C39_ManagementPreserved ==
  [][(pc = "timestamp" /\ pc' = "idle" /\ events.managed.on
        /\ events'.write = "ok") =>
       /\ project'.projectStatus = events.managed.projectStatus
       /\ project'.version = events.managed.version
       /\ project'.upgradePolicy = events.managed.upgradePolicy]_vars


\* C34: a watcher has at most one build command in flight, its building
\* flag is true exactly while one is, and a processQueue that runs while the
\* flag is set starts no command and leaves the running build as it is
C34_OneBuildInFlight ==
  /\ [](notes.outstanding <= 1 /\ (isBuilding <=> notes.outstanding = 1))
  /\ [][(isBuilding /\ notes'.runs = notes.runs + 1) =>
          /\ running' = running
          /\ round' = round
          /\ notes'.outstanding = notes.outstanding
          /\ isBuilding']_vars

\* a timer fired while a build was running: the queue holds a path and no
\* timer is armed
C34_Witness ==
  isBuilding /\ running # NoCmd /\ buildQueue # <<>> /\ debounceTimer = NoTimer
    /\ notes.runs >= 2

\* C35: when a build command of the watcher fails the building flag is
\* cleared and nothing is left running, and a notification pending after the
\* failure leads to a new build that covers it
C35_ResumesAfterFailure ==
  /\ [][(running # NoCmd /\ round'.failed) =>
          (~isBuilding' /\ running' = NoCmd)]_vars
  /\ \A k \in 1..MaxNotes :
       (round.failed /\ debounceTimer # NoTimer /\ notes.received = k
          /\ Plan(legacy, buildQueue) # <<>>)
         ~> (notes.built >= k)

\* a build runs for a notification that came after an earlier build failed
C35_Witness ==
  notes.failedOnce /\ ~round.failed /\ running # NoCmd /\ isBuilding


\* C36: in a multi-project run at most one project build is in progress, one
\* is exactly while the run is in its loop, and a build is started only when
\* every build started before it has returned its result
C36_OneAtATime ==
  /\ [](LET inFlight == Len(run.started) - Len(run.results)
        IN inFlight \in {0, 1} /\ (run.pc = "building" <=> inFlight = 1))
  /\ [][Len(run'.started) > Len(run.started) =>
          /\ Len(run'.started) = Len(run.started) + 1
          /\ Len(run'.results) = Len(run.started)]_vars

\* the second project of a run is being built
C36_Witness ==
  run.pc = "building" /\ Len(run.started) >= 2 /\ Len(run.results) = Len(run.started) - 1


\* C40: the markup written for a page holds the content blocks of the
\* sources of that page, in their order, and no others, whatever the order
\* in which the page renders of the build finish
C40_OwnContentOnly ==
  \A b \in 1..2 : \A p \in Pages :
    render.html[b][p] # NoHtml =>
      /\ render.html[b][p].page = p
      /\ render.html[b][p].blocks = Sources(pageDefs[p])

\* two pages with different sources are written, the one rendered first
\* after the other had been rendered too
C40_Witness ==
  /\ render.build = 1
  /\ render.html[1]["home"] # NoHtml
  /\ render.html[1]["about"] # NoHtml
  /\ render.html[1]["home"].blocks # render.html[1]["about"].blocks
  /\ render.combinedBlocks = Sources(pageDefs["about"])


====
